---- MODULE Spec2Model ----
(***************************************************************************)
(* Swap reconstruction and arbitrage-cycle detection of mev-inspect        *)
(* (mev_inspect/strategies/arbitrage.py), as a state machine.              *)
(*                                                                         *)
(* Python lists are sequences; Python's 0-based loop index `index` is kept *)
(* 1-based here (index = 1 is the first swap).                             *)
(***************************************************************************)
EXTENDS Integers, Sequences, FiniteSets, TLC

VARIABLES
    traces,          \* get_arbitrages: the input trace list
    groups,          \* get_arbitrages: traces_by_transaction still to process
    all_arbitrages,  \* get_arbitrages: all_arbitrages
    swaps,           \* _get_arbitrages_from_swaps: swaps
    index,           \* _get_arbitrages_from_swaps: position of first_swap
    tx_arbitrages,   \* _get_arbitrages_from_swaps: its local all_arbitrages
    swap_path,       \* _get_arbitrage_starting_with_swap: swap_path
    current_address, \* _get_arbitrage_starting_with_swap: current_address
    current_token,   \* _get_arbitrage_starting_with_swap: current_token
    pc,              \* position in the program
    result           \* what the entry point returned or raised

vars == <<traces, groups, all_arbitrages, swaps, index, tx_arbitrages,
          swap_path, current_address, current_token, pc, result>>

-----------------------------------------------------------------------------
(* Bounds                                                                  *)

\* longest swap list handed to the detector
MaxSwaps == 3

\* the while-loop of the path search is followed up to this path length
MaxPath == 6

-----------------------------------------------------------------------------
(* Program constants                                                       *)

UNISWAP_V2_PAIR_ABI_NAME == "UniswapV2Pair"

UNISWAP_V3_POOL_ABI_NAME == "UniswapV3Pool"

-----------------------------------------------------------------------------
(* Values                                                                  *)

\* the members of a list
Elements(list) == {list[i] : i \in 1..Len(list)}

NoAddress == "none"

NoToken == "none"

NoResult == [status |-> "running", value |-> <<>>]

Returned(list) == [status |-> "returned", value |-> list]

RuntimeError == [status |-> "RuntimeError", value |-> <<>>]

Swap(abi, hash, addr, pool, from, to, tin, ain, tout, aout) ==
    [abi_name |-> abi, transaction_hash |-> hash, trace_address |-> addr,
     pool_address |-> pool, from_address |-> from, to_address |-> to,
     token_in_address |-> tin, token_in_amount |-> ain,
     token_out_address |-> tout, token_out_amount |-> aout]

-----------------------------------------------------------------------------
(* Traces and transfers                                                    *)

\* `inputs` holds the decoded arguments the parsers read; NoAddress stands
\* for a key that is absent (or for inputs = None)
Inputs(to, recipient) == [to |-> to, recipient |-> recipient]

TransferTrace(hash, addr, from, to, token, amount) ==
    [transaction_hash |-> hash, trace_address |-> addr,
     classification |-> "transfer", abi_name |-> "ERC20",
     from_address |-> from, to_address |-> to,
     inputs |-> Inputs(NoAddress, NoAddress),
     token_address |-> token, amount |-> amount]

SwapTrace(hash, addr, abi, from, to, inputs) ==
    [transaction_hash |-> hash, trace_address |-> addr,
     classification |-> "swap", abi_name |-> abi,
     from_address |-> from, to_address |-> to, inputs |-> inputs,
     token_address |-> NoToken, amount |-> 0]

\* Transfer.from_trace(trace)
Transfer_from_trace(trace) ==
    [transaction_hash |-> trace.transaction_hash,
     trace_address |-> trace.trace_address,
     from_address |-> trace.from_address,
     to_address |-> trace.to_address,
     token_address |-> trace.token_address,
     amount |-> trace.amount]

\* Python's order on lists of integers: a < b
RECURSIVE LexLess(_, _)
LexLess(a, b) ==
    IF b = <<>> THEN FALSE
    ELSE IF a = <<>> THEN TRUE
    ELSE IF a[1] # b[1] THEN a[1] < b[1]
    ELSE LexLess(Tail(a), Tail(b))

\* key(t) < key(u) for the two sort keys the program uses
KeyLess(t, u, key) ==
    IF key = "trace_address" THEN LexLess(t[key], u[key]) ELSE t[key] < u[key]

\* insert x after every element whose key is not greater than x's key
RECURSIVE InsertSorted(_, _, _)
InsertSorted(x, sorted_list, key) ==
    IF sorted_list = <<>> THEN <<x>>
    ELSE IF KeyLess(x, Head(sorted_list), key) THEN <<x>> \o sorted_list
    ELSE <<Head(sorted_list)>> \o InsertSorted(x, Tail(sorted_list), key)

\* sorted(list, key=lambda t: t.<key>): a stable sort
RECURSIVE Sorted(_, _)
Sorted(list, key) ==
    IF list = <<>> THEN <<>>
    ELSE InsertSorted(list[Len(list)],
                      Sorted(SubSeq(list, 1, Len(list) - 1), key), key)

\* child's address has parent's address as a strict prefix
is_child_trace_address(child, parent) ==
    /\ Len(child) > Len(parent)
    /\ SubSeq(child, 1, Len(parent)) = parent

\* get_child_transfers(parent_trace_address, traces)
get_child_transfers(parent_trace_address, all_traces) ==
    LET children ==
            SelectSeq(all_traces, LAMBDA t :
                /\ t.classification = "transfer"
                /\ is_child_trace_address(t.trace_address, parent_trace_address))
    IN [i \in 1..Len(children) |-> Transfer_from_trace(children[i])]

\* remove_child_transfers(transfers): a transfer with a transfer nested
\* inside its call is dropped, the innermost one is kept
remove_child_transfers(transfers) ==
    SelectSeq(transfers, LAMBDA t :
        ~\E i \in 1..Len(transfers) :
            is_child_trace_address(transfers[i].trace_address, t.trace_address))

AnyAddress == "any"

\* filter_transfers(transfers, to_address=None, from_address=None)
filter_transfers(transfers, to_address, from_address) ==
    SelectSeq(transfers, LAMBDA t :
        /\ to_address # AnyAddress => t.to_address = to_address
        /\ from_address # AnyAddress => t.from_address = from_address)

-----------------------------------------------------------------------------
(* Swap reconstructor                                                      *)

\* Optional[Swap]: None is the empty sequence, a Swap the one-element one
None == <<>>

\* mutant: the input transfer is looked for among the child transfers
_parse_uniswap_v2_swap_InputFromChildren(trace, prior_transfers, child_transfers) ==
    LET pool_address == trace.to_address
        recipient_address ==
            IF trace.inputs.to # NoAddress THEN trace.inputs.to
            ELSE trace.from_address
        transfers_to_pool ==
            filter_transfers(child_transfers, pool_address, AnyAddress)
        transfers_from_pool_to_recipient ==
            filter_transfers(child_transfers, recipient_address, pool_address)
    IN IF Len(transfers_to_pool) = 0 THEN None
       ELSE IF Len(transfers_from_pool_to_recipient) # 1 THEN None
       ELSE LET transfer_in == transfers_to_pool[Len(transfers_to_pool)]
                transfer_out == transfers_from_pool_to_recipient[1]
            IN <<Swap(UNISWAP_V2_PAIR_ABI_NAME, trace.transaction_hash,
                      trace.trace_address, pool_address,
                      transfer_in.from_address, transfer_out.to_address,
                      transfer_in.token_address, transfer_in.amount,
                      transfer_out.token_address, transfer_out.amount)>>

_parse_uniswap_v2_swap(trace, prior_transfers, child_transfers) ==
    LET pool_address == trace.to_address
        recipient_address ==
            IF trace.inputs.to # NoAddress THEN trace.inputs.to
            ELSE trace.from_address
        transfers_to_pool ==
            filter_transfers(prior_transfers, pool_address, AnyAddress)
        transfers_from_pool_to_recipient ==
            filter_transfers(child_transfers, recipient_address, pool_address)
    IN IF Len(transfers_to_pool) = 0 THEN None
       ELSE IF Len(transfers_from_pool_to_recipient) # 1 THEN None
       ELSE LET transfer_in == transfers_to_pool[Len(transfers_to_pool)]
                transfer_out == transfers_from_pool_to_recipient[1]
            IN <<Swap(UNISWAP_V2_PAIR_ABI_NAME, trace.transaction_hash,
                      trace.trace_address, pool_address,
                      transfer_in.from_address, transfer_out.to_address,
                      transfer_in.token_address, transfer_in.amount,
                      transfer_out.token_address, transfer_out.amount)>>

\* mutant: only an empty list of output transfers is rejected
_parse_uniswap_v3_swap_FirstOutput(trace, child_transfers) ==
    LET pool_address == trace.to_address
        recipient_address ==
            IF trace.inputs.recipient # NoAddress THEN trace.inputs.recipient
            ELSE trace.from_address
        transfers_to_pool ==
            filter_transfers(child_transfers, pool_address, AnyAddress)
        transfers_from_pool_to_recipient ==
            filter_transfers(child_transfers, recipient_address, pool_address)
    IN IF Len(transfers_to_pool) = 0 THEN None
       ELSE IF Len(transfers_from_pool_to_recipient) = 0 THEN None
       ELSE LET transfer_in == transfers_to_pool[Len(transfers_to_pool)]
                transfer_out == transfers_from_pool_to_recipient[1]
            IN <<Swap(UNISWAP_V3_POOL_ABI_NAME, trace.transaction_hash,
                      trace.trace_address, pool_address,
                      transfer_in.from_address, transfer_out.to_address,
                      transfer_in.token_address, transfer_in.amount,
                      transfer_out.token_address, transfer_out.amount)>>

_parse_uniswap_v3_swap(trace, child_transfers) ==
    LET pool_address == trace.to_address
        recipient_address ==
            IF trace.inputs.recipient # NoAddress THEN trace.inputs.recipient
            ELSE trace.from_address
        transfers_to_pool ==
            filter_transfers(child_transfers, pool_address, AnyAddress)
        transfers_from_pool_to_recipient ==
            filter_transfers(child_transfers, recipient_address, pool_address)
    IN IF Len(transfers_to_pool) = 0 THEN None
       ELSE IF Len(transfers_from_pool_to_recipient) # 1 THEN None
       ELSE LET transfer_in == transfers_to_pool[Len(transfers_to_pool)]
                transfer_out == transfers_from_pool_to_recipient[1]
            IN <<Swap(UNISWAP_V3_POOL_ABI_NAME, trace.transaction_hash,
                      trace.trace_address, pool_address,
                      transfer_in.from_address, transfer_out.to_address,
                      transfer_in.token_address, transfer_in.amount,
                      transfer_out.token_address, transfer_out.amount)>>

_build_swap(trace, prior_transfers, child_transfers) ==
    IF trace.abi_name = UNISWAP_V2_PAIR_ABI_NAME
    THEN _parse_uniswap_v2_swap(trace, prior_transfers, child_transfers)
    ELSE IF trace.abi_name = UNISWAP_V3_POOL_ABI_NAME
    THEN _parse_uniswap_v3_swap(trace, child_transfers)
    ELSE None

\* the for-loop of _get_swaps from position i of ordered_traces on
RECURSIVE ScanTraces(_, _, _, _, _)
ScanTraces(all_traces, ordered_traces, i, found, prior_transfers) ==
    IF i > Len(ordered_traces) THEN found
    ELSE LET trace == ordered_traces[i] IN
        IF trace.classification = "transfer"
        THEN ScanTraces(all_traces, ordered_traces, i + 1, found,
                        Append(prior_transfers, Transfer_from_trace(trace)))
        ELSE IF trace.classification = "swap"
        THEN LET child_transfers ==
                     get_child_transfers(trace.trace_address, all_traces)
                 swap == _build_swap(trace,
                                     remove_child_transfers(prior_transfers),
                                     remove_child_transfers(child_transfers))
             IN ScanTraces(all_traces, ordered_traces, i + 1, found \o swap,
                           prior_transfers)
        ELSE ScanTraces(all_traces, ordered_traces, i + 1, found,
                        prior_transfers)

_get_swaps(all_traces) ==
    ScanTraces(all_traces, Sorted(all_traces, "trace_address"), 1, <<>>, <<>>)

\* a call of _get_swaps on its own
Reconstruct ==
    /\ pc = "reconstruct"
    /\ swaps' = _get_swaps(traces)
    /\ pc' = "reconstructed"
    /\ UNCHANGED <<traces, groups, all_arbitrages, index, tx_arbitrages,
                   swap_path, current_address, current_token, result>>

-----------------------------------------------------------------------------
(* Arbitrage detector                                                      *)

\* pool_addresses = {swap.pool_address for swap in swaps}
pool_addresses(ss) == {ss[i].pool_address : i \in 1..Len(ss)}

\* other_swaps = swaps[:index] + swaps[index + 1:]
other_swaps(ss, i) == SubSeq(ss, 1, i - 1) \o SubSeq(ss, i + 1, Len(ss))

\* mutant: the continuation is matched on the pool alone
IsContinuation_PoolOnly(swap, address, token) ==
    swap.pool_address = address

IsContinuation(swap, address, token) ==
    /\ swap.pool_address = address
    /\ swap.token_in_address = token

\* the inner for-loop that collects swaps_from_current_address
swaps_from_current_address(others, address, token) ==
    SelectSeq(others, LAMBDA swap : IsContinuation(swap, address, token))

\* the closing test of the while-loop
ClosesCycle(start_swap, address, token) ==
    /\ address = start_swap.from_address
    /\ token = start_swap.token_in_address

\* mutant: the profit is taken as start minus end
MakeArbitrage_StartMinusEnd(path) ==
    [swaps |-> path,
     account_address |-> path[1].from_address,
     profit_token_address |-> path[1].token_in_address,
     start_amount |-> path[1].token_in_amount,
     end_amount |-> path[Len(path)].token_out_amount,
     profit_amount |-> path[1].token_in_amount
                           - path[Len(path)].token_out_amount]

MakeArbitrage(path) ==
    LET start_swap == path[1]
        latest_swap == path[Len(path)]
        start_amount == start_swap.token_in_amount
        end_amount == latest_swap.token_out_amount
    IN [swaps |-> path,
        account_address |-> start_swap.from_address,
        profit_token_address |-> start_swap.token_in_address,
        start_amount |-> start_amount,
        end_amount |-> end_amount,
        profit_amount |-> end_amount - start_amount]

\* mutant: every swap starts a search
QualifiesAsStart_Always(ss, i) == TRUE

QualifiesAsStart(ss, i) == ss[i].from_address \notin pool_addresses(ss)

\* for-loop of _get_arbitrages_from_swaps: first_swap.from_address is a pool
SkipStart ==
    /\ pc = "scan"
    /\ index <= Len(swaps)
    /\ ~QualifiesAsStart(swaps, index)
    /\ index' = index + 1
    /\ UNCHANGED <<traces, groups, all_arbitrages, swaps, tx_arbitrages,
                   swap_path, current_address, current_token, pc, result>>

\* the call of _get_arbitrage_starting_with_swap, up to its while-loop
StartSearch ==
    /\ pc = "scan"
    /\ index <= Len(swaps)
    /\ QualifiesAsStart(swaps, index)
    /\ swap_path' = <<swaps[index]>>
    /\ current_address' = swaps[index].to_address
    /\ current_token' = swaps[index].token_out_address
    /\ pc' = "search"
    /\ UNCHANGED <<traces, groups, all_arbitrages, swaps, index,
                   tx_arbitrages, result>>

Candidates ==
    swaps_from_current_address(other_swaps(swaps, index),
                               current_address, current_token)

\* one pass of the while-loop: no continuation, return None
HopNone ==
    /\ pc = "search"
    /\ Len(Candidates) = 0
    /\ pc' = "scan"
    /\ index' = index + 1
    /\ swap_path' = <<>>
    /\ current_address' = NoAddress
    /\ current_token' = NoToken
    /\ UNCHANGED <<traces, groups, all_arbitrages, swaps, tx_arbitrages,
                   result>>

\* mutant: an ambiguous continuation abandons this start only
HopAmbiguous_SkipsStart ==
    /\ pc = "search"
    /\ Len(Candidates) > 1
    /\ pc' = "scan"
    /\ index' = index + 1
    /\ swap_path' = <<>>
    /\ current_address' = NoAddress
    /\ current_token' = NoToken
    /\ UNCHANGED <<traces, groups, all_arbitrages, swaps, tx_arbitrages,
                   result>>

\* one pass of the while-loop: several continuations, raise RuntimeError
HopAmbiguous ==
    /\ pc = "search"
    /\ Len(Candidates) > 1
    /\ pc' = "error"
    /\ result' = RuntimeError
    /\ UNCHANGED <<traces, groups, all_arbitrages, swaps, index,
                   tx_arbitrages, swap_path, current_address, current_token>>

\* one pass of the while-loop: one continuation that does not close the path
HopAppend ==
    /\ pc = "search"
    /\ Len(Candidates) = 1
    /\ Len(swap_path) < MaxPath
    /\ LET latest_swap == Candidates[1] IN
        /\ ~ClosesCycle(swap_path[1], latest_swap.to_address,
                        latest_swap.token_out_address)
        /\ swap_path' = Append(swap_path, latest_swap)
        /\ current_address' = latest_swap.to_address
        /\ current_token' = latest_swap.token_out_address
    /\ UNCHANGED <<traces, groups, all_arbitrages, swaps, index,
                   tx_arbitrages, pc, result>>

\* mutant: a closed path is reported only when it made a profit
HopClose_ProfitableOnly ==
    /\ pc = "search"
    /\ Len(Candidates) = 1
    /\ LET latest_swap == Candidates[1] IN
        /\ ClosesCycle(swap_path[1], latest_swap.to_address,
                       latest_swap.token_out_address)
        /\ tx_arbitrages' =
               IF latest_swap.token_out_amount > swap_path[1].token_in_amount
               THEN Append(tx_arbitrages,
                           MakeArbitrage(Append(swap_path, latest_swap)))
               ELSE tx_arbitrages
    /\ pc' = "scan"
    /\ index' = index + 1
    /\ swap_path' = <<>>
    /\ current_address' = NoAddress
    /\ current_token' = NoToken
    /\ UNCHANGED <<traces, groups, all_arbitrages, swaps, result>>

\* one pass of the while-loop: one continuation that closes the path; the
\* Arbitrage is returned and appended by _get_arbitrages_from_swaps
HopClose ==
    /\ pc = "search"
    /\ Len(Candidates) = 1
    /\ LET latest_swap == Candidates[1] IN
        /\ ClosesCycle(swap_path[1], latest_swap.to_address,
                       latest_swap.token_out_address)
        /\ tx_arbitrages' =
               Append(tx_arbitrages, MakeArbitrage(Append(swap_path, latest_swap)))
    /\ pc' = "scan"
    /\ index' = index + 1
    /\ swap_path' = <<>>
    /\ current_address' = NoAddress
    /\ current_token' = NoToken
    /\ UNCHANGED <<traces, groups, all_arbitrages, swaps, result>>

\* end of the for-loop: return all_arbitrages to get_arbitrages, which
\* extends its own list with it
ReturnFromSwaps ==
    /\ pc = "scan"
    /\ index > Len(swaps)
    /\ all_arbitrages' = all_arbitrages \o tx_arbitrages
    /\ tx_arbitrages' = <<>>
    /\ pc' = "transactions"
    /\ UNCHANGED <<traces, groups, swaps, index, swap_path, current_address,
                   current_token, result>>

\* end of the loop over transactions: return all_arbitrages
ReturnAll ==
    /\ pc = "transactions"
    /\ groups = <<>>
    /\ result' = Returned(all_arbitrages)
    /\ pc' = "done"
    /\ UNCHANGED <<traces, groups, all_arbitrages, swaps, index, tx_arbitrages,
                   swap_path, current_address, current_token>>

-----------------------------------------------------------------------------
(* get_arbitrages                                                          *)

\* itertools.groupby(list, key=get_transaction_hash): the runs of equal keys
RECURSIVE groupby(_)
groupby(list) ==
    IF list = <<>> THEN <<>>
    ELSE LET rest == groupby(Tail(list)) IN
        IF rest # <<>> /\ Head(rest)[1].transaction_hash = Head(list).transaction_hash
        THEN <<(<<Head(list)>> \o Head(rest))>> \o Tail(rest)
        ELSE <<(<<Head(list)>>)>> \o rest

\* mutant: the traces are grouped without being sorted first
traces_by_transaction_Unsorted(all_traces) == groupby(all_traces)

\* traces_by_transaction = groupby(sorted(traces, key=...), key=...)
traces_by_transaction(all_traces) ==
    groupby(Sorted(all_traces, "transaction_hash"))

\* get_arbitrages up to its loop
GroupTraces ==
    /\ pc = "start"
    /\ groups' = traces_by_transaction(traces)
    /\ all_arbitrages' = <<>>
    /\ pc' = "transactions"
    /\ UNCHANGED <<traces, swaps, index, tx_arbitrages, swap_path,
                   current_address, current_token, result>>

\* _get_arbitrages_for_transaction with more than one swap: the call of
\* _get_arbitrages_from_swaps up to its loop
TransactionDetect ==
    /\ pc = "transactions"
    /\ groups # <<>>
    /\ LET transaction_swaps == _get_swaps(Head(groups)) IN
        /\ Len(transaction_swaps) > 1
        /\ swaps' = transaction_swaps
    /\ groups' = Tail(groups)
    /\ index' = 1
    /\ tx_arbitrages' = <<>>
    /\ pc' = "scan"
    /\ UNCHANGED <<traces, all_arbitrages, swap_path, current_address,
                   current_token, result>>

\* _get_arbitrages_for_transaction with at most one swap: returns []
TransactionFewSwaps ==
    /\ pc = "transactions"
    /\ groups # <<>>
    /\ LET transaction_swaps == _get_swaps(Head(groups)) IN
        /\ Len(transaction_swaps) <= 1
        /\ swaps' = transaction_swaps
    /\ groups' = Tail(groups)
    /\ all_arbitrages' = all_arbitrages \o <<>>
    /\ UNCHANGED <<traces, index, tx_arbitrages, swap_path, current_address,
                   current_token, pc, result>>

-----------------------------------------------------------------------------
(* The detector on its own: every list of up to MaxSwaps swaps             *)

Accounts == {"X"}

Pools == {"P1", "P2"}

\* what a swap exchanges: <<token in, amount in, token out, amount out>>
Exchanges ==
    {<<"A", 100, "B", 80>>, <<"B", 80, "A", 110>>, <<"B", 80, "A", 80>>}

SwapChoices ==
    {c \in [pool_address : Pools, from_address : Accounts \cup Pools,
            to_address : Accounts \cup Pools, exchange : Exchanges] :
        /\ c.from_address # c.pool_address
        /\ c.to_address # c.pool_address}

SwapOfChoice(c, i) ==
    Swap(UNISWAP_V2_PAIR_ABI_NAME, 1, <<i>>, c.pool_address, c.from_address,
         c.to_address, c.exchange[1], c.exchange[2], c.exchange[3],
         c.exchange[4])

SwapList(f) == [i \in DOMAIN f |-> SwapOfChoice(f[i], i)]

InitDetect ==
    /\ traces = <<>>
    /\ groups = <<>>
    /\ all_arbitrages = <<>>
    /\ \E n \in 1..MaxSwaps : \E f \in [1..n -> SwapChoices] :
           swaps = SwapList(f)
    /\ index = 1
    /\ tx_arbitrages = <<>>
    /\ swap_path = <<>>
    /\ current_address = NoAddress
    /\ current_token = NoToken
    /\ pc = "scan"
    /\ result = NoResult

NextDetect ==
    \/ SkipStart
    \/ StartSearch
    \/ HopNone
    \/ HopAmbiguous
    \/ HopAppend
    \/ HopClose
    \/ ReturnFromSwaps
    \/ ReturnAll

SpecDetect == InitDetect /\ [][NextDetect]_vars

-----------------------------------------------------------------------------
(* get_arbitrages on the traces of up to MaxTransactions transactions      *)

\* most transactions in one input
MaxTransactions == 2

\* transaction hashes; their order stands for Python's order on the strings
Hashes == {1, 2, 3}

V2To(to) == Inputs(to, NoAddress)

\* X pays A 100 into P1, P1 pays B 80 into P2, P2 pays A end_amount to X
ArbitrageTraces(h, end_amount) ==
    <<TransferTrace(h, <<0>>, "X", "P1", "A", 100),
      SwapTrace(h, <<1>>, UNISWAP_V2_PAIR_ABI_NAME, "X", "P1", V2To("P2")),
      TransferTrace(h, <<1, 0>>, "P1", "P2", "B", 80),
      SwapTrace(h, <<2>>, UNISWAP_V2_PAIR_ABI_NAME, "X", "P2", V2To("X")),
      TransferTrace(h, <<2, 0>>, "P2", "X", "A", end_amount)>>

\* one swap at P1
SingleSwapTraces(h) ==
    <<TransferTrace(h, <<0>>, "X", "P1", "A", 100),
      SwapTrace(h, <<1>>, UNISWAP_V2_PAIR_ABI_NAME, "X", "P1", V2To("X")),
      TransferTrace(h, <<1, 0>>, "P1", "X", "B", 80)>>

\* the swap at P1 pays B into P2, where two swaps take B
AmbiguousTraces(h) ==
    <<TransferTrace(h, <<0>>, "X", "P1", "A", 100),
      SwapTrace(h, <<1>>, UNISWAP_V2_PAIR_ABI_NAME, "X", "P1", V2To("P2")),
      TransferTrace(h, <<1, 0>>, "P1", "P2", "B", 80),
      SwapTrace(h, <<2>>, UNISWAP_V2_PAIR_ABI_NAME, "X", "P2", V2To("X")),
      TransferTrace(h, <<2, 0>>, "P2", "X", "A", 50),
      SwapTrace(h, <<3>>, UNISWAP_V2_PAIR_ABI_NAME, "X", "P2", V2To("X")),
      TransferTrace(h, <<3, 0>>, "P2", "X", "A", 60)>>

\* an arbitrage through P1 and P2, then a swap at P3 that pays A into P1,
\* where two swaps take A
LateAmbiguousTraces(h) ==
    ArbitrageTraces(h, 110) \o
    <<TransferTrace(h, <<3>>, "X", "P3", "C", 5),
      SwapTrace(h, <<4>>, UNISWAP_V2_PAIR_ABI_NAME, "X", "P3", V2To("P1")),
      TransferTrace(h, <<4, 0>>, "P3", "P1", "A", 7),
      SwapTrace(h, <<5>>, UNISWAP_V2_PAIR_ABI_NAME, "X", "P1", V2To("P2")),
      TransferTrace(h, <<5, 0>>, "P1", "P2", "B", 3)>>

\* X pays A 100 into P1, P1 pays B into P2, P2 pays C into P3, P3 pays A
\* 120 to X
ThreeHopTraces(h) ==
    <<TransferTrace(h, <<0>>, "X", "P1", "A", 100),
      SwapTrace(h, <<1>>, UNISWAP_V2_PAIR_ABI_NAME, "X", "P1", V2To("P2")),
      TransferTrace(h, <<1, 0>>, "P1", "P2", "B", 80),
      SwapTrace(h, <<2>>, UNISWAP_V2_PAIR_ABI_NAME, "X", "P2", V2To("P3")),
      TransferTrace(h, <<2, 0>>, "P2", "P3", "C", 70),
      SwapTrace(h, <<3>>, UNISWAP_V2_PAIR_ABI_NAME, "X", "P3", V2To("X")),
      TransferTrace(h, <<3, 0>>, "P3", "X", "A", 120)>>

\* X swaps A for B at P1 and receives the B itself, then swaps it for A at P2
ThroughAccountTraces(h) ==
    <<TransferTrace(h, <<0>>, "X", "P1", "A", 100),
      SwapTrace(h, <<1>>, UNISWAP_V2_PAIR_ABI_NAME, "X", "P1", V2To("X")),
      TransferTrace(h, <<1, 0>>, "P1", "X", "B", 80),
      TransferTrace(h, <<2>>, "X", "P2", "B", 80),
      SwapTrace(h, <<3>>, UNISWAP_V2_PAIR_ABI_NAME, "X", "P2", V2To("X")),
      TransferTrace(h, <<3, 0>>, "P2", "X", "A", 110)>>

Shapes ==
    {"arbitrage", "loss", "three hop", "through account", "single",
     "ambiguous", "late ambiguous"}

TransactionTraces(h, shape) ==
    CASE shape = "arbitrage" -> ArbitrageTraces(h, 110)
      [] shape = "loss" -> ArbitrageTraces(h, 90)
      [] shape = "three hop" -> ThreeHopTraces(h)
      [] shape = "through account" -> ThroughAccountTraces(h)
      [] shape = "single" -> SingleSwapTraces(h)
      [] shape = "ambiguous" -> AmbiguousTraces(h)
      [] shape = "late ambiguous" -> LateAmbiguousTraces(h)

RECURSIVE Concatenated(_)
Concatenated(lists) ==
    IF lists = <<>> THEN <<>> ELSE Head(lists) \o Concatenated(Tail(lists))

\* the lists dealt out in turn, one trace of each at a time
RECURSIVE Interleaved(_)
Interleaved(lists) ==
    LET left == SelectSeq(lists, LAMBDA l : l # <<>>) IN
    IF left = <<>> THEN <<>>
    ELSE [i \in 1..Len(left) |-> Head(left[i])]
             \o Interleaved([i \in 1..Len(left) |-> Tail(left[i])])

Init ==
    /\ \E n \in 1..MaxTransactions :
       \E hash \in [1..n -> Hashes] :
       \E shape \in [1..n -> Shapes] :
       \E interleave \in BOOLEAN :
           /\ \A i, j \in 1..n : i # j => hash[i] # hash[j]
           /\ LET lists == [i \in 1..n |-> TransactionTraces(hash[i], shape[i])]
              IN traces = IF interleave THEN Interleaved(lists)
                          ELSE Concatenated(lists)
    /\ groups = <<>>
    /\ all_arbitrages = <<>>
    /\ swaps = <<>>
    /\ index = 1
    /\ tx_arbitrages = <<>>
    /\ swap_path = <<>>
    /\ current_address = NoAddress
    /\ current_token = NoToken
    /\ pc = "start"
    /\ result = NoResult

Next ==
    \/ GroupTraces
    \/ TransactionDetect
    \/ TransactionFewSwaps
    \/ SkipStart
    \/ StartSearch
    \/ HopNone
    \/ HopAmbiguous
    \/ HopAppend
    \/ HopClose
    \/ ReturnFromSwaps
    \/ ReturnAll

Spec == Init /\ [][Next]_vars

-----------------------------------------------------------------------------
(* The reconstructor on its own: one swap call at <<1>> of caller X on     *)
(* pool P, with transfers before it and inside it                          *)

SwapPosition == <<1>>

\* trace addresses of the transfers: two before the swap call (one nested
\* in the other) and four inside it (three siblings, one nested)
TransferPositions ==
    {<<0>>, <<0, 0>>, <<1, 0>>, <<1, 0, 0>>, <<1, 1>>, <<1, 2>>}

PositionsInOrder ==
    <<(<<0>>), (<<0, 0>>), (<<1>>), (<<1, 0>>), (<<1, 0, 0>>), (<<1, 1>>),
      (<<1, 2>>)>>

\* <<from_address, to_address>> of a transfer
Directions == {<<"X", "P">>, <<"P", "X">>, <<"P", "R">>}

\* the pool is paid in token A and pays in token B
TokenOf(direction) == IF direction[2] = "P" THEN "A" ELSE "B"

\* every transfer moves an amount of its own
AmountAt(i) == 100 + i

TransferChoices ==
    {c \in [present : BOOLEAN, direction : Directions] :
        c.present \/ c.direction = <<"X", "P">>}

SwapAbiChoices ==
    {UNISWAP_V2_PAIR_ABI_NAME, UNISWAP_V3_POOL_ABI_NAME, "Other"}

SwapInputChoices ==
    {Inputs(NoAddress, NoAddress), Inputs("X", NoAddress),
     Inputs("R", NoAddress), Inputs(NoAddress, "X"), Inputs(NoAddress, "R")}

Reverse(list) == [i \in 1..Len(list) |-> list[Len(list) + 1 - i]]

\* the trace list of one transaction, in execution order or reversed
ReconstructorInput(choice, abi, inputs, reversed) ==
    LET every ==
            [i \in 1..Len(PositionsInOrder) |->
                IF PositionsInOrder[i] = SwapPosition
                THEN SwapTrace(1, PositionsInOrder[i], abi, "X", "P", inputs)
                ELSE LET c == choice[PositionsInOrder[i]]
                     IN TransferTrace(1, PositionsInOrder[i], c.direction[1],
                                      c.direction[2], TokenOf(c.direction),
                                      AmountAt(i))]
        list ==
            SelectSeq(every, LAMBDA t :
                t.trace_address = SwapPosition
                    \/ choice[t.trace_address].present)
    IN IF reversed THEN Reverse(list) ELSE list

InitReconstruct ==
    /\ \E choice \in [TransferPositions -> TransferChoices] :
       \E abi \in SwapAbiChoices :
       \E inputs \in SwapInputChoices :
       \E reversed \in BOOLEAN :
           traces = ReconstructorInput(choice, abi, inputs, reversed)
    /\ groups = <<>>
    /\ all_arbitrages = <<>>
    /\ swaps = <<>>
    /\ index = 1
    /\ tx_arbitrages = <<>>
    /\ swap_path = <<>>
    /\ current_address = NoAddress
    /\ current_token = NoToken
    /\ pc = "reconstruct"
    /\ result = NoResult

NextReconstruct == Reconstruct

SpecReconstruct == InitReconstruct /\ [][NextReconstruct]_vars

-----------------------------------------------------------------------------
(* Properties of the detector                                              *)

\* every Arbitrage the program holds: found so far, merged, or returned
KnownArbitrages ==
    Elements(tx_arbitrages) \cup Elements(all_arbitrages)
        \cup Elements(result.value)

C1_ExpectedArbitrage(ss) ==
    [swaps |-> ss, account_address |-> "X", profit_token_address |-> "A",
     start_amount |-> 100, end_amount |-> 110, profit_amount |-> 10]

\* the two swaps of the claim: X itself receives B from P1
C1_SwapsThroughAccount ==
    <<Swap(UNISWAP_V2_PAIR_ABI_NAME, 1, <<1>>, "P1", "X", "X", "A", 100, "B", 80),
      Swap(UNISWAP_V2_PAIR_ABI_NAME, 1, <<2>>, "P2", "X", "X", "B", 80, "A", 110)>>

\* C1 as stated: with the swaps [X -A100-> P1 -B80-> X, X -B80-> P2 -A110-> X]
\* detect returns exactly one Arbitrage (X, A, 100, 110, 10, both swaps).
C1_TwoHopThroughAccount ==
    (pc = "done" /\ swaps = C1_SwapsThroughAccount)
        => result = Returned(<<C1_ExpectedArbitrage(swaps)>>)

\* the two swaps when P1 pays its output straight into P2
C1_IsPoolRouted(ss) ==
    /\ Len(ss) = 2
    /\ ss[1] = Swap(UNISWAP_V2_PAIR_ABI_NAME, 1, <<1>>, "P1", "X", "P2",
                    "A", 100, "B", 80)
    /\ \E from \in {"X", "P1"} :
           ss[2] = Swap(UNISWAP_V2_PAIR_ABI_NAME, 1, <<2>>, "P2", from, "X",
                        "B", 80, "A", 110)

\* C1 amended: when X sends A 100 into P1, P1 sends B 80 to pool P2 (the
\* to_address of the swap at P1 is P2) and P2 sends A 110 to X, detect
\* returns exactly one Arbitrage (X, A, 100, 110, 10, [swap-at-P1, swap-at-P2]).
C1_TwoHopPoolRouted ==
    (pc = "done" /\ C1_IsPoolRouted(swaps))
        => result = Returned(<<C1_ExpectedArbitrage(swaps)>>)

C1_Witness ==
    /\ pc = "done"
    /\ C1_IsPoolRouted(swaps)
    /\ Len(result.value) = 1

\* C2 as stated: the search from a start swap makes at most n hops, n the
\* number of swaps, before it ends.
C2_AtMostNHops ==
    pc = "search" => Len(swap_path) - 1 <= Len(swaps)

\* C9 as stated: no swap occurs twice in the working path and the path is
\* never longer than the swap list.
C9_NoSwapTwiceOnPath ==
    /\ \A i, j \in 1..Len(swap_path) : i # j => swap_path[i] # swap_path[j]
    /\ Len(swap_path) <= Len(swaps)

IsClosedPath(a) ==
    /\ Len(a.swaps) >= 2
    /\ \A i \in 1..(Len(a.swaps) - 1) :
           /\ a.swaps[i + 1].pool_address = a.swaps[i].to_address
           /\ a.swaps[i + 1].token_in_address = a.swaps[i].token_out_address
    /\ a.swaps[Len(a.swaps)].to_address = a.swaps[1].from_address
    /\ a.swaps[Len(a.swaps)].token_out_address = a.swaps[1].token_in_address
    /\ a.account_address = a.swaps[1].from_address
    /\ a.profit_token_address = a.swaps[1].token_in_address

\* C7: every Arbitrage is a closed path of at least two swaps: each swap is
\* at the pool the previous one paid and takes the token it paid, the last
\* one pays the first one's sender the first one's input token, and the
\* account and profit token are those of the first swap.
C7_ArbitrageIsClosedPath == \A a \in KnownArbitrages : IsClosedPath(a)

C7_Witness ==
    /\ pc = "done"
    /\ \E a \in Elements(result.value) :
           Len(a.swaps) = 2 /\ a.swaps[1].to_address # a.account_address

PathCloses ==
    /\ pc = "search"
    /\ Len(Candidates) = 1
    /\ ClosesCycle(swap_path[1], Candidates[1].to_address,
                   Candidates[1].token_out_address)

\* C8: whenever the path closes an Arbitrage is emitted whose start_amount
\* is the start swap's input amount, whose end_amount is the last swap's
\* output amount and whose profit_amount is their difference, whatever its
\* sign.
C8_ClosedPathReported ==
    [][PathCloses =>
          /\ Len(tx_arbitrages') = Len(tx_arbitrages) + 1
          /\ LET a == tx_arbitrages'[Len(tx_arbitrages')] IN
                /\ a.start_amount = swap_path[1].token_in_amount
                /\ a.end_amount = Candidates[1].token_out_amount
                /\ a.profit_amount = a.end_amount - a.start_amount]_vars

C8_Witness ==
    /\ pc = "done"
    /\ \E a \in Elements(result.value) :
           a.end_amount < a.start_amount /\ a.profit_amount < 0

PositionOf(s) == CHOOSE i \in 1..Len(swaps) : swaps[i] = s

C10_FromIsNoPool(i) ==
    \A j \in 1..Len(swaps) : swaps[j].pool_address # swaps[i].from_address

C10_NonPoolStarts == {i \in 1..Len(swaps) : C10_FromIsNoPool(i)}

\* the start swaps of the listed arbitrages are swaps sent by no pool, in
\* strictly increasing position
C10_InStartOrder(list) ==
    /\ \A i \in 1..Len(list) :
           /\ list[i].swaps[1] \in Elements(swaps)
           /\ PositionOf(list[i].swaps[1]) \in C10_NonPoolStarts
    /\ \A i, j \in 1..Len(list) :
           i < j => PositionOf(list[i].swaps[1]) < PositionOf(list[j].swaps[1])
    /\ Len(list) <= Cardinality(C10_NonPoolStarts)

C10_State ==
    /\ pc \in {"search", "error"} =>
           /\ C10_FromIsNoPool(index)
           /\ swap_path[1] = swaps[index]
    /\ C10_InStartOrder(tx_arbitrages)
    /\ C10_InStartOrder(all_arbitrages)
    /\ C10_InStartOrder(result.value)
    /\ \A i \in 1..Len(tx_arbitrages) :
           PositionOf(tx_arbitrages[i].swaps[1]) < index
    /\ \A a \in KnownArbitrages :
           \A j \in 1..Len(swaps) : swaps[j].pool_address # a.account_address

C10_Step ==
    (pc = "scan" /\ index <= Len(swaps)) =>
        /\ C10_FromIsNoPool(index) =>
               pc' = "search" /\ swap_path' = <<swaps[index]>>
        /\ ~C10_FromIsNoPool(index) =>
               pc' = "scan" /\ index' = index + 1
                   /\ tx_arbitrages' = tx_arbitrages

\* C10: a search is started from a swap exactly when its from_address is no
\* pool_address of the list; the arbitrages are listed in the order of their
\* start swaps, at most one per start; no account_address is a pool address;
\* and there are no more arbitrages than qualifying starts.
C10_OnlyNonPoolStarts == []C10_State /\ [][C10_Step]_vars

C10_Witness ==
    /\ pc = "done"
    /\ Len(result.value) = 1
    /\ Cardinality(C10_NonPoolStarts) = 2
    /\ \E i \in 1..Len(swaps) : ~C10_FromIsNoPool(i)

-----------------------------------------------------------------------------
(* Properties of the reconstructor                                         *)

SwapCalls == {t \in Elements(traces) : t.classification = "swap"}

TransferCalls == {t \in Elements(traces) : t.classification = "transfer"}

\* the transfers that come before the swap call t in execution order
PriorTransfersOf(t) ==
    {u \in TransferCalls : LexLess(u.trace_address, t.trace_address)}

\* the transfers inside the swap call t
ChildTransfersOf(t) ==
    {u \in TransferCalls :
        is_child_trace_address(u.trace_address, t.trace_address)}

\* the members of a set of transfers that have none of them nested inside
Innermost(transfers) ==
    {u \in transfers :
        ~\E v \in transfers :
            is_child_trace_address(v.trace_address, u.trace_address)}

Between(transfers, from, to) ==
    {u \in transfers : u.from_address = from /\ u.to_address = to}

Into(transfers, to) == {u \in transfers : u.to_address = to}

\* the swaps reconstructed for the swap call t
SwapsOf(t) == {i \in 1..Len(swaps) : swaps[i].trace_address = t.trace_address}

RecipientOf(t) ==
    IF t.abi_name = UNISWAP_V2_PAIR_ABI_NAME
    THEN (IF t.inputs.to # NoAddress THEN t.inputs.to ELSE t.from_address)
    ELSE (IF t.inputs.recipient # NoAddress THEN t.inputs.recipient
          ELSE t.from_address)

YieldsRoundTrip(t, transfer_in, transfer_out) ==
    /\ Cardinality(SwapsOf(t)) = 1
    /\ \A i \in SwapsOf(t) :
           /\ swaps[i].token_in_amount = transfer_in.amount
           /\ swaps[i].token_out_amount = transfer_out.amount

\* C5 as stated: a V2 swap call with exactly one prior transfer into the
\* pool and exactly one child transfer from the pool to its caller yields
\* exactly one Swap with the two transfers' amounts, whatever its inputs.
C5_RoundTripAnyInputs ==
    pc = "reconstructed" =>
        \A t \in SwapCalls : \A p \in PriorTransfersOf(t) :
        \A c \in ChildTransfersOf(t) :
            (/\ t.abi_name = UNISWAP_V2_PAIR_ABI_NAME
             /\ Into(PriorTransfersOf(t), t.to_address) = {p}
             /\ Between(ChildTransfersOf(t), t.to_address, t.from_address) = {c})
                => YieldsRoundTrip(t, p, c)

C5_Precondition(t, p, c) ==
    /\ t.abi_name = UNISWAP_V2_PAIR_ABI_NAME
    /\ RecipientOf(t) = t.from_address
    /\ Into(Innermost(PriorTransfersOf(t)), t.to_address) = {p}
    /\ Between(Innermost(ChildTransfersOf(t)), t.to_address, t.from_address) = {c}

\* C5 amended: a V2 swap call whose inputs have no "to" or name the caller
\* in it, with exactly one transfer into the pool among the innermost prior
\* transfers and exactly one transfer from the pool to the caller among the
\* innermost child transfers, yields exactly one Swap with the two
\* transfers' amounts.
C5_RoundTripToCaller ==
    pc = "reconstructed" =>
        \A t \in SwapCalls : \A p \in PriorTransfersOf(t) :
        \A c \in ChildTransfersOf(t) :
            C5_Precondition(t, p, c) => YieldsRoundTrip(t, p, c)

C5_Witness ==
    /\ pc = "reconstructed"
    /\ \E t \in SwapCalls : \E p \in PriorTransfersOf(t) :
       \E c \in ChildTransfersOf(t) :
           /\ C5_Precondition(t, p, c)
           /\ t.inputs.to = t.from_address
           /\ p.amount # c.amount
           /\ Cardinality(PriorTransfersOf(t)) > 1
           /\ Cardinality(ChildTransfersOf(t)) > 1
           /\ Len(swaps) = 1

IsParsed(t) ==
    t.abi_name \in {UNISWAP_V2_PAIR_ABI_NAME, UNISWAP_V3_POOL_ABI_NAME}

\* C6 as stated: a V2 or V3 swap call with two distinct child transfers from
\* the pool to the recipient yields no Swap, wherever the two are placed in
\* its subtree.
C6_TwoOutputsRejected ==
    pc = "reconstructed" =>
        \A t \in SwapCalls :
            (/\ IsParsed(t)
             /\ Cardinality(Between(ChildTransfersOf(t), t.to_address,
                                    RecipientOf(t))) >= 2)
                => SwapsOf(t) = {}

C6_Precondition(t) ==
    /\ IsParsed(t)
    /\ Cardinality(Between(Innermost(ChildTransfersOf(t)), t.to_address,
                           RecipientOf(t))) >= 2

\* C6 amended: a V2 or V3 swap call with two distinct transfers from the
\* pool to the recipient among its innermost child transfers (neither is
\* dropped as shadowed, as for two sibling transfers) yields no Swap.
C6_TwoInnermostOutputsRejected ==
    pc = "reconstructed" =>
        \A t \in SwapCalls : C6_Precondition(t) => SwapsOf(t) = {}

C6_Witness ==
    /\ pc = "reconstructed"
    /\ \E t \in SwapCalls :
           /\ C6_Precondition(t)
           /\ t.abi_name = UNISWAP_V3_POOL_ABI_NAME
           /\ Into(Innermost(ChildTransfersOf(t)), t.to_address) # {}
           /\ swaps = <<>>

-----------------------------------------------------------------------------
(* Properties of get_arbitrages                                            *)

\* the arbitrage the path search reaches from `path`, as a list of 0 or 1
RECURSIVE C3_Follow(_, _, _)
C3_Follow(others, path, hops_left) ==
    LET last == path[Len(path)]
        next == swaps_from_current_address(others, last.to_address,
                                           last.token_out_address)
    IN IF hops_left = 0 \/ Len(next) # 1 THEN <<>>
       ELSE IF ClosesCycle(path[1], next[1].to_address,
                           next[1].token_out_address)
       THEN <<MakeArbitrage(Append(path, next[1]))>>
       ELSE C3_Follow(others, Append(path, next[1]), hops_left - 1)

\* detect(swaps), as a function
C3_Detect(ss) ==
    IF Len(ss) <= 1 THEN <<>>
    ELSE Concatenated([i \in 1..Len(ss) |->
             IF QualifiesAsStart(ss, i)
             THEN C3_Follow(other_swaps(ss, i), <<ss[i]>>, MaxPath)
             ELSE <<>>])

\* detect(reconstruct(partition of h))
C3_PerTransaction(h) ==
    C3_Detect(_get_swaps(SelectSeq(traces, LAMBDA t : t.transaction_hash = h)))

C3_InOrder(order) ==
    Concatenated([i \in 1..Len(order) |-> C3_PerTransaction(order[i])])

\* the transaction hashes in the order of their first trace in the list
RECURSIVE C3_EncounterOrder(_)
C3_EncounterOrder(list) ==
    IF list = <<>> THEN <<>>
    ELSE <<Head(list).transaction_hash>> \o
         C3_EncounterOrder(SelectSeq(Tail(list), LAMBDA t :
             t.transaction_hash # Head(list).transaction_hash))

\* the transaction hashes in ascending order
RECURSIVE C3_Ascending(_)
C3_Ascending(hashes) ==
    IF hashes = {} THEN <<>>
    ELSE LET least == CHOOSE h \in hashes : \A g \in hashes : h <= g
         IN <<least>> \o C3_Ascending(hashes \ {least})

\* C3 as stated: get_arbitrages returns the arbitrages of the partitions,
\* each detect(reconstruct(partition)), concatenated in the order in which
\* the transaction hashes first appear in the input.
C3_EncounterOrderConcatenation ==
    pc = "done" => result.value = C3_InOrder(C3_EncounterOrder(traces))

\* C3 amended: get_arbitrages returns the arbitrages of the partitions, each
\* detect(reconstruct(partition)), concatenated in ascending order of
\* transaction_hash.
C3_HashOrderConcatenation ==
    pc = "done" =>
        result.value =
            C3_InOrder(C3_Ascending({t.transaction_hash : t \in Elements(traces)}))

C3_Witness ==
    /\ pc = "done"
    /\ Len(result.value) = 2
    /\ result.value[1].swaps[1].transaction_hash
           < result.value[2].swaps[1].transaction_hash
    /\ traces[1].transaction_hash = result.value[2].swaps[1].transaction_hash

AmbiguousHop == pc = "search" /\ Len(Candidates) > 1

C4_Step ==
    /\ AmbiguousHop => pc' = "error" /\ result' = RuntimeError
    /\ pc = "error" => UNCHANGED vars

\* C4: when more than one other swap continues the path, the run ends in
\* the error instead of going on to the next start; nothing is run after it
\* and no list is returned, so the arbitrages found from earlier starts and
\* in earlier transactions are not returned.
C4_AmbiguityIsFatal ==
    /\ [](pc = "error" => result = RuntimeError /\ result.value = <<>>)
    /\ [](result.status = "returned" => pc = "done")
    /\ [][C4_Step]_vars

C4_Witness ==
    /\ pc = "error"
    /\ tx_arbitrages # <<>>
    /\ all_arbitrages # <<>>
    /\ result.value = <<>>

====
